---- MODULE Spec2Model ----
(***************************************************************************)
(* Model of the HTTP retry client of src/core/http: the process-wide       *)
(* configuration (config.ts), the client objects and their configuration   *)
(* resolution (client.ts constructor, mergeRequestConfig), the retry loop  *)
(* of HttpClient.request, the failure classifier canRetry and the backoff  *)
(* calculator calculateBackoffDelay (utils.ts); the single-attempt         *)
(* streaming path HttpClient.requestStream.                                *)
(*                                                                         *)
(* An optional value (a key that may be missing from an options object) is *)
(* a set: {} when the key is absent, {v} when it is present with value v.  *)
(* A number that may be fractional (backoff.multiplier) is a record        *)
(* [n, d] standing for n/d.                                                *)
(***************************************************************************)
EXTENDS Integers, Sequences, FiniteSets, TLC

VARIABLES
    globalConfig,   \* config.ts: let globalConfig
    defaults,       \* config.ts: the content of the object DEFAULT_CONFIG
    shared,         \* globalConfig.backoff and globalConfig.logging are the very
                    \* objects DEFAULT_CONFIG.backoff and DEFAULT_CONFIG.logging
    snapshot,       \* the object a caller holds from its last getGlobalConfig()
    clients,        \* client id -> the HttpClient object (or NoClient)
    calls,          \* frame id -> the frame of one request() invocation
    stream          \* the frame of one requestStream() invocation

vars == <<globalConfig, defaults, shared, snapshot, clients, calls, stream>>

(***************************************************************************)
(* Bounds of the model.                                                    *)
(***************************************************************************)
JitterDen == 2      \* Math.random() takes the values j/JitterDen, j < JitterDen
MaxElapsed == 200000    \* elapsed times saturate here (above every globalTimeout)
MaxChunks == 3      \* a streamed response has at most MaxChunks chunks

CallIds == {1, 2}
ClientIds == {0, 1}     \* 0: defaultClient of http.ts, 1: a createClient() client

(***************************************************************************)
(* Optional values and object spread.                                      *)
(***************************************************************************)
Absent == {}
Some(v) == {v}
Value(o) == CHOOSE v \in o : TRUE

\* a ?? b
Nullish(o, dflt) == IF o = Absent THEN dflt ELSE Value(o)

\* the object given replaces the base object instead of being merged into it:
\* the keys it lacks are undefined (0, FALSE or "" here)
Spread_Wholesale(base, part) ==
    IF \A k \in DOMAIN base : part[k] = Absent
      THEN base
      ELSE [k \in DOMAIN base |->
              IF part[k] # Absent THEN Value(part[k])
              ELSE IF k = "multiplier" THEN [n |-> 0, d |-> 1]
              ELSE IF k \in {"jitter", "logRetries"} THEN FALSE
              ELSE IF k = "level" THEN ""
              ELSE 0]

\* { ...base, ...part } where part is an object of optional keys
Spread(base, part) ==
    [k \in DOMAIN base |-> IF part[k] = Absent THEN base[k] ELSE Value(part[k])]

\* { ...base, ...full } where full has every key of base
SpreadAll(base, full) ==
    [k \in DOMAIN base |-> IF k \in DOMAIN full THEN full[k] ELSE base[k]]

Frac(n, d) == [n |-> n, d |-> d]

(***************************************************************************)
(* config.ts                                                               *)
(***************************************************************************)
DEFAULT_CONFIG ==
    [ maxRetries     |-> 3,
      requestTimeout |-> 30000,
      globalTimeout  |-> 120000,
      backoff |-> [ initialDelay |-> 1000,
                    multiplier   |-> Frac(2, 1),
                    maxDelay     |-> 30000,
                    jitter       |-> TRUE ],
      logging |-> [ level |-> "info", logRetries |-> TRUE ] ]

NoBackoff ==
    [initialDelay |-> Absent, multiplier |-> Absent, maxDelay |-> Absent, jitter |-> Absent]
NoLogging == [level |-> Absent, logRetries |-> Absent]

\* Partial<GlobalConfig> / ClientConfig with no key
NoConfig ==
    [ maxRetries |-> Absent, requestTimeout |-> Absent, globalTimeout |-> Absent,
      backoff |-> NoBackoff, logging |-> NoLogging ]

\* RequestOptions with no override
NoOptions ==
    [ maxRetries |-> Absent, timeout |-> Absent, globalTimeout |-> Absent,
      backoff |-> NoBackoff, logging |-> NoLogging ]

\* the given keys are merged into the defaults instead of the current value
setGlobalConfig_OntoDefaults(g, config) ==
    [ maxRetries     |-> Nullish(config.maxRetries, DEFAULT_CONFIG.maxRetries),
      requestTimeout |-> Nullish(config.requestTimeout, DEFAULT_CONFIG.requestTimeout),
      globalTimeout  |-> Nullish(config.globalTimeout, DEFAULT_CONFIG.globalTimeout),
      backoff        |-> Spread(DEFAULT_CONFIG.backoff, config.backoff),
      logging        |-> Spread(DEFAULT_CONFIG.logging, config.logging) ]

\* setGlobalConfig(config): the new value of globalConfig
setGlobalConfig(g, config) ==
    [ maxRetries     |-> Nullish(config.maxRetries, g.maxRetries),
      requestTimeout |-> Nullish(config.requestTimeout, g.requestTimeout),
      globalTimeout  |-> Nullish(config.globalTimeout, g.globalTimeout),
      backoff        |-> Spread(g.backoff, config.backoff),
      logging        |-> Spread(g.logging, config.logging) ]

\* the nested objects of globalConfig are updated in place
defaultsAfterSet_InPlace(d, isShared, config) ==
    IF isShared
      THEN [d EXCEPT !.backoff = Spread(d.backoff, config.backoff),
                     !.logging = Spread(d.logging, config.logging)]
      ELSE d

\* setGlobalConfig(config): the content of DEFAULT_CONFIG afterwards, given
\* its content d before and whether globalConfig shares its nested objects.
\* Lines 36-46 build a new top-level object and new backoff and logging
\* objects; nothing is assigned through a reference to an existing object.
defaultsAfterSet(d, isShared, config) == d

\* resetGlobalConfig(): the new value of globalConfig, a shallow copy of
\* DEFAULT_CONFIG
resetGlobalConfig(d) == d

\* getGlobalConfig()
getGlobalConfig(g) == g

\* The object getGlobalConfig() returned (line 53: { ...globalConfig }).  It is
\* a new top-level object whose backoff and logging are the objects
\* globalConfig referred to when it was made:
\*   ref = "defaults"  those of DEFAULT_CONFIG
\*   ref = "own"       those the last setGlobalConfig made, still the ones of
\*                     globalConfig
\*   ref = "stale"     objects globalConfig has dropped since
\*   ref = "none"      no object has been obtained yet
NoSnapshot == [ref |-> "none", value |-> DEFAULT_CONFIG]

\* lines 35 and 60: globalConfig is assigned a new object (with new nested
\* objects, or with those of DEFAULT_CONFIG); the objects it had are left to
\* the snapshots that refer to them
Outdated(snap) == IF snap.ref = "own" THEN [snap EXCEPT !.ref = "stale"] ELSE snap

\* the value of a configuration object after backoff.jitter has been assigned
\* through a reference to its backoff object
WithJitter(config, jitter) == [config EXCEPT !.backoff.jitter = jitter]

(***************************************************************************)
(* client.ts: constructor and mergeRequestConfig                           *)
(***************************************************************************)
\* new HttpClient(clientConfig): the value of this.config
HttpClientConfig(clientConfig, g) ==
    [ maxRetries     |-> Nullish(clientConfig.maxRetries, g.maxRetries),
      requestTimeout |-> Nullish(clientConfig.requestTimeout, g.requestTimeout),
      globalTimeout  |-> Nullish(clientConfig.globalTimeout, g.globalTimeout),
      backoff |->
        [ initialDelay |-> Nullish(clientConfig.backoff.initialDelay, g.backoff.initialDelay),
          multiplier   |-> Nullish(clientConfig.backoff.multiplier, g.backoff.multiplier),
          maxDelay     |-> Nullish(clientConfig.backoff.maxDelay, g.backoff.maxDelay),
          jitter       |-> Nullish(clientConfig.backoff.jitter, g.backoff.jitter) ],
      logging |->
        [ level      |-> Nullish(clientConfig.logging.level, g.logging.level),
          logRetries |-> Nullish(clientConfig.logging.logRetries, g.logging.logRetries) ] ]

\* options.maxRetries is not consulted
mergeRequestConfig_IgnoresRequestRetries(options, thisConfig, g) ==
    [ maxRetries     |-> g.maxRetries,
      requestTimeout |-> Nullish(options.timeout, g.requestTimeout),
      globalTimeout  |-> Nullish(options.globalTimeout, g.globalTimeout),
      backoff |-> Spread(SpreadAll(g.backoff, thisConfig.backoff), options.backoff),
      logging |-> Spread(SpreadAll(g.logging, thisConfig.logging), options.logging) ]

\* this.mergeRequestConfig(options), with this.config = thisConfig and the
\* process-wide configuration g at the time of the call
mergeRequestConfig(options, thisConfig, g) ==
    [ maxRetries     |-> Nullish(options.maxRetries, g.maxRetries),
      requestTimeout |-> Nullish(options.timeout, g.requestTimeout),
      globalTimeout  |-> Nullish(options.globalTimeout, g.globalTimeout),
      backoff |-> Spread(SpreadAll(g.backoff, thisConfig.backoff), options.backoff),
      logging |-> Spread(SpreadAll(g.logging, thisConfig.logging), options.logging) ]

(***************************************************************************)
(* utils.ts                                                                *)
(***************************************************************************)
RECURSIVE Pow(_, _)
Pow(b, e) == IF e <= 0 THEN 1 ELSE b * Pow(b, e - 1)

\* the exponent is the 1-based retry number
calculateBackoffDelay_ExponentOffByOne(attempt, config, j) ==
    LET num    == config.initialDelay * Pow(config.multiplier.n, attempt + 1)
        den    == Pow(config.multiplier.d, attempt + 1)
        capped == num >= config.maxDelay * den
    IN  IF config.jitter
          THEN IF capped
                 THEN (config.maxDelay * (JitterDen + j)) \div (2 * JitterDen)
                 ELSE (num * (JitterDen + j)) \div (den * 2 * JitterDen)
          ELSE IF capped THEN config.maxDelay ELSE num \div den

\* the jitter factor is random() instead of 0.5 + random() * 0.5
calculateBackoffDelay_JitterFullRange(attempt, config, j) ==
    LET num    == config.initialDelay * Pow(config.multiplier.n, attempt)
        den    == Pow(config.multiplier.d, attempt)
        capped == num >= config.maxDelay * den
    IN  IF config.jitter
          THEN IF capped
                 THEN (config.maxDelay * j) \div JitterDen
                 ELSE (num * j) \div (den * JitterDen)
          ELSE IF capped THEN config.maxDelay ELSE num \div den

\* calculateBackoffDelay(attempt, config) when Math.random() returns j/JitterDen.
\* initialDelay * multiplier^attempt is the fraction num/den; the result is
\* Math.floor of the capped (and, with jitter, scaled) delay.
calculateBackoffDelay(attempt, config, j) ==
    LET num    == config.initialDelay * Pow(config.multiplier.n, attempt)
        den    == Pow(config.multiplier.d, attempt)
        capped == num >= config.maxDelay * den
    IN  IF config.jitter
          THEN IF capped
                 THEN (config.maxDelay * (JitterDen + j)) \div (2 * JitterDen)
                 ELSE (num * (JitterDen + j)) \div (den * 2 * JitterDen)
          ELSE IF capped THEN config.maxDelay ELSE num \div den

isRetryableStatus(status) == status = 500

retryableCodes ==
    { "ECONNREFUSED", "ECONNRESET", "ETIMEDOUT", "ENOTFOUND",
      "EAI_AGAIN", "ENETUNREACH", "EHOSTUNREACH" }

\* isRetryableError(error): error.code is an optional string
isRetryableError(error) == error.code # "" /\ error.code \in retryableCodes

(***************************************************************************)
(* types.ts: the error classes.  An error is a record; the fields a class  *)
(* does not have are 0 or "".                                              *)
(***************************************************************************)
Error(kind, status, code, msg, attempts) ==
    [kind |-> kind, status |-> status, code |-> code, msg |-> msg, attempts |-> attempts]

NoError == Error("null", 0, "", "", 0)
HttpError(status) == Error("HttpError", status, "", "HTTP", 0)
TimeoutError(msg) == Error("TimeoutError", 0, "", msg, 0)
NetworkError(code) == Error("NetworkError", 0, code, "Network error", 0)
RetryExhaustedError(attempts) ==
    Error("RetryExhaustedError", 0, "", "Maximum retries exceeded", attempts)
\* an exception of another class thrown inside executeRequest (new URL() of an
\* invalid url throws a TypeError whose code is ERR_INVALID_URL)
OtherError(code) == Error("TypeError", 0, code, "Invalid URL", 0)

(***************************************************************************)
(* client.ts: canRetry                                                     *)
(***************************************************************************)
\* the code of a NetworkError is looked up in retryableCodes
canRetry_ChecksNetworkCode(error) ==
    IF error.kind = "HttpError" THEN isRetryableStatus(error.status)
    ELSE IF error.kind = "TimeoutError" THEN TRUE
    ELSE IF error.code # "" /\ isRetryableError(error) THEN TRUE
    ELSE FALSE

canRetry(error) ==
    IF error.kind = "HttpError" THEN isRetryableStatus(error.status)
    ELSE IF error.kind \in {"TimeoutError", "NetworkError"} THEN TRUE
    ELSE IF error.code # "" /\ isRetryableError(error) THEN TRUE
    ELSE FALSE

(***************************************************************************)
(* client.ts: executeRequest.  The raw outcome of one attempt is what the  *)
(* network does: a response with a status, the socket timeout event, a     *)
(* socket error event with an optional code, or an exception thrown while  *)
(* the request is being built.                                             *)
(***************************************************************************)
RawResponse(status) == [type |-> "response", status |-> status, code |-> ""]
RawTimeout == [type |-> "timeout", status |-> 0, code |-> ""]
RawSocketError(code) == [type |-> "error", status |-> 0, code |-> code]
RawThrow(code) == [type |-> "throw", status |-> 0, code |-> code]
\* no attempt has completed yet
NoRaw == [type |-> "none", status |-> 0, code |-> ""]

\* The statuses, socket error codes ("" is an error event without a code)
\* and thrown exceptions the model's network produces.
Statuses == {200, 302, 404, 500, 503}
SocketCodes == {"ECONNREFUSED", ""}
\* new URL(url) throws a TypeError with code ERR_INVALID_URL; serializeBody
\* runs the caller's toJSON, which may throw an error carrying any code
ThrownCodes == {"ERR_INVALID_URL", "ECONNRESET"}
RawOutcomes ==
    {RawResponse(st) : st \in Statuses} \cup {RawTimeout}
        \cup {RawSocketError(c) : c \in SocketCodes}
        \cup {RawThrow(c) : c \in ThrownCodes}

\* only the retryable status is rejected
Resolves_OnlyRetryableRejected(raw) ==
    raw.type = "response" /\ ~isRetryableStatus(raw.status)

\* TRUE when the attempt resolves with a Response
Resolves(raw) ==
    raw.type = "response" /\ ~isRetryableStatus(raw.status) /\ ~(raw.status >= 400)

\* the error the attempt rejects with, when it does not resolve
Rejection(raw) ==
    IF raw.type = "response" THEN HttpError(raw.status)
    ELSE IF raw.type = "timeout" THEN TimeoutError("Request timeout")
    ELSE IF raw.type = "error"
           THEN NetworkError(IF raw.code # "" THEN raw.code ELSE "UNKNOWN")
    ELSE OtherError(raw.code)

(***************************************************************************)
(* client.ts: request.  The frame of one invocation.                       *)
(*   startGlobal   the process-wide configuration read at line 360         *)
(*   pc            "idle" (not started), "attempting" (awaiting            *)
(*                 executeRequest), "sleeping" (awaiting sleep(delay)),    *)
(*                 "done" (returned or thrown)                             *)
(*   elapsed       Date.now() - startTime, saturating at MaxElapsed        *)
(*   delay         the argument of the pending sleep                       *)
(*   returned      status of the returned Response, 0 when none            *)
(*   thrown        the error request() threw, NoError when none            *)
(*   execCount, sleepCount, timeoutHits                                    *)
(*                 history: calls of executeRequest, calls of sleep, and   *)
(*                 global-timeout checks that fired                        *)
(*   lastRaw       history: the raw outcome of the last completed attempt  *)
(*   listedOnly    history: every attempt so far was rejected with a       *)
(*                 TimeoutError, a NetworkError whose code is one of       *)
(*                 retryableCodes, or an HttpError of status 500           *)
(*   open          the requests of this call that have been sent and have  *)
(*                 neither completed nor been destroyed                    *)
(*   destroyed     the number of the attempt whose request the timeout     *)
(*                 handler destroyed and which has still to emit its last  *)
(*                 event, 0 when there is none.  The event is emitted on   *)
(*                 the next tick, so before the next attempt completes.    *)
(*   lateSeen      history: events handled after their request was         *)
(*                 destroyed                                               *)
(*   debugs, warns history: calls of this.logger.debug and                 *)
(*                 this.logger.warn                                        *)
(*   lastWarn      history: attempt, delay and error of the metadata the   *)
(*                 last run of the catch block passed to this.logger.warn, *)
(*                 NoWarn when that run did not call it                    *)
(***************************************************************************)
NoWarn == [attempt |-> 0, delay |-> 0, error |-> ""]

IdleCall ==
    [ pc |-> "idle", client |-> 0, options |-> NoOptions, config |-> DEFAULT_CONFIG,
      startGlobal |-> DEFAULT_CONFIG, elapsed |-> 0, attemptNumber |-> 0, lastError |-> NoError,
      delay |-> 0, returned |-> 0, thrown |-> NoError,
      execCount |-> 0, sleepCount |-> 0, timeoutHits |-> 0, lastRaw |-> NoRaw,
      listedOnly |-> TRUE, open |-> 0, destroyed |-> 0, lateSeen |-> 0,
      debugs |-> 0, warns |-> 0, lastWarn |-> NoWarn ]

\* the initial attempt is counted twice
maxAttempts_OneTooMany(f) == 2 + f.config.maxRetries

\* a call is given at least its initial attempt
maxAttempts_AtLeastOne(f) ==
    IF f.config.maxRetries < 0 THEN 1 ELSE 1 + f.config.maxRetries

\* line 83
maxAttempts(f) == 1 + f.config.maxRetries

\* the error reports the retries allowed instead of the attempts made
Exhausted_ReportsMaxRetries(f) ==
    [f EXCEPT !.pc = "done", !.thrown = RetryExhaustedError(f.config.maxRetries)]

\* the call goes back to sleep instead of throwing
Exhausted_SleepsAgain(f) ==
    [f EXCEPT !.pc = "sleeping", !.delay = 0]

\* lines 142-149: the throw after the loop
Exhausted(f) ==
    [f EXCEPT !.pc = "done", !.thrown = RetryExhaustedError(f.attemptNumber)]

\* the retry is logged whatever logRetries is
Retry_IgnoresLogRetries(g, error, j) ==
    LET delay == calculateBackoffDelay(g.attemptNumber - 1, g.config.backoff, j)
    IN  [g EXCEPT !.pc = "sleeping", !.delay = delay, !.sleepCount = g.sleepCount + 1,
                  !.warns = g.warns + 1,
                  !.lastWarn = [attempt |-> g.attemptNumber, delay |-> delay,
                                error |-> error.msg]]

\* lines 123-139: the delay is computed, the retry is logged when logRetries
\* is set, and sleep(delay) is awaited
Retry(g, error, j) ==
    LET delay  == calculateBackoffDelay(g.attemptNumber - 1, g.config.backoff, j)
        h      == [g EXCEPT !.pc = "sleeping", !.delay = delay,
                            !.sleepCount = g.sleepCount + 1]
    IN  IF g.config.logging.logRetries
          THEN [h EXCEPT !.warns = g.warns + 1,
                         !.lastWarn = [attempt |-> g.attemptNumber, delay |-> delay,
                                       error |-> error.msg]]
          ELSE h

\* a failure of the last allowed attempt is always wrapped, fatal or not
Catch_WrapsOnLastAttempt(f, error, j) ==
    LET g == [f EXCEPT !.lastError = error, !.attemptNumber = f.attemptNumber + 1,
                       !.lastWarn = NoWarn]
    IN  IF g.attemptNumber >= maxAttempts(g)
          THEN Exhausted(g)
          ELSE IF ~canRetry(error)
                 THEN [g EXCEPT !.pc = "done", !.thrown = error]
                 ELSE Retry(g, error, j)

\* the last attempt is recognised one failure late
Catch_OffByOne(f, error, j) ==
    LET g == [f EXCEPT !.lastError = error, !.attemptNumber = f.attemptNumber + 1,
                       !.lastWarn = NoWarn]
    IN  IF g.attemptNumber > maxAttempts(g) \/ ~canRetry(error)
          THEN IF ~canRetry(error)
                 THEN [g EXCEPT !.pc = "done", !.thrown = error]
                 ELSE Exhausted(g)
          ELSE Retry(g, error, j)

\* the call gives up one failure early
Catch_GivesUpOneEarly(f, error, j) ==
    LET g == [f EXCEPT !.lastError = error, !.attemptNumber = f.attemptNumber + 1,
                       !.lastWarn = NoWarn]
    IN  IF g.attemptNumber + 1 >= maxAttempts(g) \/ ~canRetry(error)
          THEN IF ~canRetry(error)
                 THEN [g EXCEPT !.pc = "done", !.thrown = error]
                 ELSE Exhausted(g)
          ELSE Retry(g, error, j)

\* lines 109-139: the catch block, up to the throw, the break or the await of sleep
Catch(f, error, j) ==
    LET g == [f EXCEPT !.lastError = error, !.attemptNumber = f.attemptNumber + 1,
                       !.lastWarn = NoWarn]
    IN  IF g.attemptNumber >= maxAttempts(g) \/ ~canRetry(error)
          THEN IF ~canRetry(error)
                 THEN [g EXCEPT !.pc = "done", !.thrown = error]
                 ELSE Exhausted(g)
          ELSE Retry(g, error, j)

\* the configuration is resolved again at every loop entry
LoopEntry_ReResolves(f, j) ==
    LET h == [f EXCEPT !.config =
                 mergeRequestConfig(f.options, clients[f.client].config,
                                    getGlobalConfig(globalConfig))]
    IN  IF h.attemptNumber < maxAttempts(h)
          THEN IF h.elapsed >= h.config.globalTimeout
                 THEN Catch([h EXCEPT !.timeoutHits = h.timeoutHits + 1],
                            TimeoutError("Global timeout exceeded"), j)
                 ELSE [h EXCEPT !.pc = "attempting", !.execCount = h.execCount + 1,
                                !.open = h.open + 1]
          ELSE Exhausted(h)

\* the global timeout is compared with > instead of >=
LoopEntry_ChecksStrictly(f, j) ==
    IF f.attemptNumber < maxAttempts(f)
      THEN IF f.elapsed > f.config.globalTimeout
             THEN Catch([f EXCEPT !.timeoutHits = f.timeoutHits + 1],
                        TimeoutError("Global timeout exceeded"), j)
             ELSE [f EXCEPT !.pc = "attempting", !.execCount = f.execCount + 1,
                            !.open = f.open + 1]
      ELSE Exhausted(f)

\* lines 85-97: the loop condition, the global timeout check and the call of
\* executeRequest, up to its await
LoopEntry(f, j) ==
    IF f.attemptNumber < maxAttempts(f)
      THEN IF f.elapsed >= f.config.globalTimeout
             THEN Catch([f EXCEPT !.timeoutHits = f.timeoutHits + 1],
                        TimeoutError("Global timeout exceeded"), j)
             ELSE [f EXCEPT !.pc = "attempting", !.execCount = f.execCount + 1,
                            !.open = f.open + 1]
      ELSE Exhausted(f)

ListedFailure(error) ==
    \/ error.kind = "TimeoutError"
    \/ error.kind = "NetworkError" /\ error.code \in retryableCodes
    \/ error.kind = "HttpError" /\ error.status = 500

\* the connection of a completed attempt stays with the call
AfterAttempt_KeepsConnection(f, raw, j) ==
    LET g == [f EXCEPT !.lastRaw = raw,
                       !.destroyed = IF raw.type = "timeout" THEN f.execCount ELSE 0]
    IN  IF Resolves(raw)
          THEN [g EXCEPT !.pc = "done", !.returned = raw.status, !.listedOnly = FALSE,
                         !.debugs = f.debugs + 1]
          ELSE Catch([g EXCEPT !.listedOnly = f.listedOnly /\ ListedFailure(Rejection(raw))],
                     Rejection(raw), j)

\* lines 97-107 and 109: the continuation of the await of executeRequest.
\* The attempt is over: its response has been read to the end, its socket has
\* failed, or its request has been destroyed by the timeout handler (lines
\* 292-293); a request that threw while it was built never opened a
\* connection.
AfterAttempt(f, raw, j) ==
    LET g == [f EXCEPT !.lastRaw = raw, !.open = f.open - 1,
                       !.destroyed = IF raw.type = "timeout" THEN f.execCount ELSE 0]
    IN  IF Resolves(raw)
          THEN [g EXCEPT !.pc = "done", !.returned = raw.status, !.listedOnly = FALSE,
                         !.debugs = f.debugs + 1]
          ELSE Catch([g EXCEPT !.listedOnly = f.listedOnly /\ ListedFailure(Rejection(raw))],
                     Rejection(raw), j)

\* an event of an earlier request settles the attempt in progress
AttemptSettles_AnyAttempt(f, attempt, raw, j) ==
    IF f.pc = "attempting" THEN AfterAttempt(f, raw, j) ELSE f

\* lines 250-306: resolve or reject of the promise of attempt number attempt
\* is called with the raw outcome raw.  The promise is pending while the call
\* awaits that very attempt; a settled promise ignores the call.
AttemptSettles(f, attempt, raw, j) ==
    IF f.pc = "attempting" /\ f.execCount = attempt THEN AfterAttempt(f, raw, j) ELSE f

(***************************************************************************)
(* client.ts: requestStream.  The frame of one invocation.                 *)
(*   pc         "idle" (not started), "connecting" (request sent, no       *)
(*              response yet), "streaming" (the response callback has run  *)
(*              and the data, end and error listeners are attached),       *)
(*              "resolved", "rejected"                                     *)
(*   thrown     the error the promise was rejected with                    *)
(*   delivered  the chunks passed to onChunk, in call order                *)
(*   closed     the request has been destroyed and has emitted its last    *)
(*              event                                                      *)
(*   received, ended, cause, attempts, status                              *)
(*              history: the chunks the transport delivered in arrival     *)
(*              order, whether it signalled end-of-stream, the event that  *)
(*              settled the promise, the number of requests sent or        *)
(*              attempted to be built, the status of the response          *)
(***************************************************************************)
IdleStream ==
    [ pc |-> "idle", options |-> NoOptions, config |-> DEFAULT_CONFIG, status |-> 0,
      received |-> <<>>, delivered |-> <<>>, ended |-> FALSE, thrown |-> NoError,
      cause |-> "", closed |-> FALSE, attempts |-> 0 ]

Settled(s) == s.pc \in {"resolved", "rejected"}

\* resolve() and reject(error) of the promise of line 175: a settled promise
\* ignores them
Resolve(s, cause) ==
    IF Settled(s) THEN s ELSE [s EXCEPT !.pc = "resolved", !.cause = cause]
Reject(s, error, cause) ==
    IF Settled(s) THEN s ELSE [s EXCEPT !.pc = "rejected", !.thrown = error, !.cause = cause]

\* the error object a response stream emits when the connection is closed
\* before the body is complete: a plain Error with code ECONNRESET
AbortedError == Error("Error", 0, "ECONNRESET", "aborted", 0)

\* lines 156-174 and 207-214: the request is built and sent; new URL() throws
\* for an invalid url before any request exists
startStream(options, thisConfig, g, validUrl) ==
    LET s == [IdleStream EXCEPT !.options = options,
                                !.config = mergeRequestConfig(options, thisConfig, g),
                                !.attempts = 1]
    IN  IF validUrl
          THEN [s EXCEPT !.pc = "connecting"]
          ELSE Reject([s EXCEPT !.closed = TRUE], OtherError("ERR_INVALID_URL"), "throw")

\* the chunk is passed to onChunk ahead of the chunks already delivered
onData_Prepends(s, chunk) ==
    [s EXCEPT !.received = Append(s.received, chunk),
              !.delivered = <<chunk>> \o s.delivered]

\* lines 179-181: res.on('data')
onData(s, chunk) ==
    [s EXCEPT !.received = Append(s.received, chunk),
              !.delivered = Append(s.delivered, chunk)]

\* the call is rejected with an HttpError when the response status is 400 or
\* more
onEnd_ClassifiesStatus(s) ==
    IF s.status >= 400
      THEN Reject([s EXCEPT !.ended = TRUE, !.closed = TRUE], HttpError(s.status), "end")
      ELSE Resolve([s EXCEPT !.ended = TRUE, !.closed = TRUE], "end")

\* lines 183-185: res.on('end')
onEnd(s) == Resolve([s EXCEPT !.ended = TRUE, !.closed = TRUE], "end")

\* line 187: res.on('error', reject)
onResponseError(s, error) == Reject([s EXCEPT !.closed = TRUE], error, "response error")

\* lines 190-197: req.on('timeout'); req.destroy() stops the response stream
\* and leaves the request one 'error' event to emit
onTimeout(s) == Reject(s, TimeoutError("Request timeout"), "timeout")

\* lines 199-205: req.on('error')
onError(s, code) ==
    Reject([s EXCEPT !.closed = TRUE],
           NetworkError(IF code # "" THEN code ELSE "UNKNOWN"), "request error")

(***************************************************************************)
(* The inputs of the model: the arguments the callers pass.                *)
(***************************************************************************)
Backoff(initialDelay, multiplier, maxDelay, jitter) ==
    [ initialDelay |-> Some(initialDelay), multiplier |-> Some(multiplier),
      maxDelay |-> Some(maxDelay), jitter |-> Some(jitter) ]

\* arguments of setGlobalConfig
GlobalPatches ==
    { [NoConfig EXCEPT !.maxRetries = Some(2), !.requestTimeout = Some(10000),
                       !.globalTimeout = Some(60000),
                       !.backoff = Backoff(100, Frac(3, 2), 1000, FALSE),
                       !.logging.logRetries = Some(FALSE)],
      [NoConfig EXCEPT !.backoff.jitter = Some(FALSE)] }

\* arguments of createClient
ClientConfigs ==
    { [NoConfig EXCEPT !.maxRetries = Some(1), !.requestTimeout = Some(5000),
                       !.backoff.initialDelay = Some(100)] }

\* per-request overrides
RequestOptions ==
    { NoOptions,
      [NoOptions EXCEPT !.maxRetries = Some(1)],
      [NoOptions EXCEPT !.maxRetries = Some(0), !.timeout = Some(500)],
      [NoOptions EXCEPT !.maxRetries = Some(-2)],
      [NoOptions EXCEPT !.backoff.jitter = Some(FALSE)],
      [NoOptions EXCEPT !.maxRetries = Some(2), !.globalTimeout = Some(0)],
      [NoOptions EXCEPT !.maxRetries = Some(0), !.globalTimeout = Some(0)],
      [NoOptions EXCEPT !.maxRetries = Some(2),
                        !.backoff = Backoff(100, Frac(3, 2), 120, TRUE)],
      [NoOptions EXCEPT !.maxRetries = Some(6), !.globalTimeout = Some(3000),
                        !.backoff = Backoff(100, Frac(2, 1), 1000, FALSE)] }

\* per-request overrides of the calls made through the createClient() client
ClientRequestOptions ==
    { NoOptions, [NoOptions EXCEPT !.backoff.jitter = Some(FALSE)] }

\* time an attempt takes before a response or a socket error arrives
AttemptMs == 50
AttemptDurations == {AttemptMs}

JitterDraws == 0..(JitterDen - 1)

(***************************************************************************)
(* State machine.  Frame 1 is the invocation of a caller that awaits each  *)
(* request before it issues the next one; frame 2 is the invocation of a   *)
(* second caller running concurrently (used by SpecConcurrent only).       *)
(***************************************************************************)
\* An HttpClient: config is this.config; given (the constructor's argument)
\* and seen (the process-wide configuration the constructor read) are history.
NoClient ==
    [created |-> FALSE, given |-> NoConfig, seen |-> DEFAULT_CONFIG, config |-> DEFAULT_CONFIG]

\* new HttpClient(clientConfig) while the process-wide configuration is g
NewHttpClient(clientConfig, g) ==
    [ created |-> TRUE, given |-> clientConfig, seen |-> g,
      config |-> HttpClientConfig(clientConfig, g) ]

Init ==
    /\ globalConfig = DEFAULT_CONFIG
    /\ defaults = DEFAULT_CONFIG
    /\ shared = TRUE
    /\ snapshot = NoSnapshot
    \* http.ts line 21: const defaultClient = new HttpClient()
    /\ clients = [id \in ClientIds |->
                    IF id = 0
                      THEN NewHttpClient(NoConfig, getGlobalConfig(DEFAULT_CONFIG))
                      ELSE NoClient]
    /\ calls = [c \in CallIds |-> IdleCall]
    /\ stream = IdleStream

Min(a, b) == IF a <= b THEN a ELSE b
Max(a, b) == IF a >= b THEN a ELSE b

InFlight(f) == f.pc \in {"attempting", "sleeping"}

\* the await of frame f took d milliseconds: Date.now() - startTime grows by d
Advance(f, d) == [f EXCEPT !.elapsed = Min(f.elapsed + d, MaxElapsed)]

\* http.ts setGlobalConfig(config)
SetGlobalConfig(config) ==
    /\ globalConfig' = setGlobalConfig(globalConfig, config)
    /\ globalConfig' # globalConfig \/ snapshot.ref = "own"
    /\ defaults' = defaultsAfterSet(defaults, shared, config)
    /\ shared' = FALSE
    /\ snapshot' = Outdated(snapshot)
    /\ UNCHANGED <<clients, calls, stream>>

\* config.ts resetGlobalConfig()
ResetGlobalConfig ==
    /\ ~shared
    /\ globalConfig' = resetGlobalConfig(defaults)
    /\ shared' = TRUE
    /\ snapshot' = Outdated(snapshot)
    /\ UNCHANGED <<defaults, clients, calls, stream>>

\* config.ts getGlobalConfig(), the result kept by the caller
GetGlobalConfig ==
    /\ snapshot' = [ref   |-> IF shared THEN "defaults" ELSE "own",
                    value |-> getGlobalConfig(globalConfig)]
    /\ snapshot' # snapshot
    /\ UNCHANGED <<globalConfig, defaults, shared, clients, calls, stream>>

\* the caller assigns a top-level key of the object it holds:
\* snapshot.maxRetries = n
WriteSnapshotKey(n) ==
    /\ snapshot.ref # "none"
    /\ snapshot' = [snapshot EXCEPT !.value.maxRetries = n]
    /\ snapshot' # snapshot
    /\ UNCHANGED <<globalConfig, defaults, shared, clients, calls, stream>>

\* the caller assigns a field of a nested object of the object it holds:
\* snapshot.backoff.jitter = jitter.  The assignment is to the backoff object
\* itself, whichever configuration objects refer to it.
WriteSnapshotField(jitter) ==
    /\ snapshot.ref # "none"
    /\ snapshot.value.backoff.jitter # jitter
    /\ snapshot' = [snapshot EXCEPT !.value = WithJitter(snapshot.value, jitter)]
    /\ globalConfig' = IF snapshot.ref = "own" \/ (snapshot.ref = "defaults" /\ shared)
                         THEN WithJitter(globalConfig, jitter)
                         ELSE globalConfig
    /\ defaults' = IF snapshot.ref = "defaults" THEN WithJitter(defaults, jitter)
                   ELSE defaults
    /\ UNCHANGED <<shared, clients, calls, stream>>

\* http.ts createClient(config)
CreateClient(config) ==
    /\ ~clients[1].created
    /\ clients' = [clients EXCEPT ![1] =
                     NewHttpClient(config, getGlobalConfig(globalConfig))]
    /\ UNCHANGED <<globalConfig, defaults, shared, snapshot, calls, stream>>

\* lines 72-83: the locals of request(options) on client id when the loop is
\* reached, the process-wide configuration being g
NewCall(id, options, g) ==
    [IdleCall EXCEPT
       !.client = id, !.options = options, !.startGlobal = g,
       !.config = mergeRequestConfig(options, clients[id].config, g),
       !.debugs = 1]

\* client.request(options) of the caller of frame c, up to its first await
\* (lines 71-97)
StartRequest(c, id, options, j) ==
    /\ ~InFlight(calls[c])
    /\ clients[id].created
    /\ calls' = [calls EXCEPT ![c] =
                   LoopEntry(NewCall(id, options, getGlobalConfig(globalConfig)), j)]
    /\ UNCHANGED <<globalConfig, defaults, shared, snapshot, clients, stream>>

\* the attempt of invocation c ends with the raw outcome raw, d ms after it
\* began (the socket timeout fires after requestTimeout ms)
AttemptCompletes(c, raw, d, j) ==
    /\ calls[c].pc = "attempting"
    /\ LET took == IF raw.type = "timeout" THEN calls[c].config.requestTimeout
                   ELSE d
       IN  calls' = [calls EXCEPT ![c] =
                       AttemptSettles(Advance(calls[c], took), calls[c].execCount, raw, j)]
    /\ UNCHANGED <<globalConfig, defaults, shared, snapshot, clients, stream>>

\* the attempt counter is shared by the calls in progress
SleepCompletes_SharedCounter(c, j) ==
    /\ calls[c].pc = "sleeping"
    /\ LET n == Max(calls[1].attemptNumber, calls[2].attemptNumber)
       IN  calls' = [calls EXCEPT ![c] =
                       LoopEntry(Advance([calls[c] EXCEPT !.attemptNumber = n],
                                         calls[c].delay), j)]
    /\ UNCHANGED <<globalConfig, defaults, shared, snapshot, clients, stream>>

\* the sleep timer of invocation c fires, delay ms after it was set, and the
\* loop is entered again
SleepCompletes(c, j) ==
    /\ calls[c].pc = "sleeping"
    /\ calls' = [calls EXCEPT ![c] = LoopEntry(Advance(calls[c], calls[c].delay), j)]
    /\ UNCHANGED <<globalConfig, defaults, shared, snapshot, clients, stream>>

\* the request that the timeout handler of invocation c destroyed emits its
\* last event: the 'error' of the destroyed socket, or the end of a response
\* that was already buffered
LateEvent(c, raw, j) ==
    /\ calls[c].destroyed > 0
    /\ raw.type \in {"response", "error"}
    /\ calls' = [calls EXCEPT ![c] =
                   AttemptSettles([calls[c] EXCEPT !.destroyed = 0,
                                                   !.lateSeen = calls[c].lateSeen + 1],
                                  calls[c].destroyed, raw, j)]
    /\ UNCHANGED <<globalConfig, defaults, shared, snapshot, clients, stream>>

(***************************************************************************)
(* requestStream on the default client.                                    *)
(***************************************************************************)
StreamOptions ==
    { NoOptions,
      [NoOptions EXCEPT !.maxRetries = Some(0)],
      [NoOptions EXCEPT !.maxRetries = Some(5), !.timeout = Some(500)] }
Chunks == {"a", "b"}

\* http.ts requestStream(options, onChunk), up to the return of the promise
StartStream(options, validUrl) ==
    /\ stream.pc \notin {"connecting", "streaming"}
    /\ stream' = startStream(options, clients[0].config, getGlobalConfig(globalConfig),
                             validUrl)
    /\ UNCHANGED <<globalConfig, defaults, shared, snapshot, clients, calls>>

\* the response headers arrive: the callback of client.request runs
StreamResponse(status) ==
    /\ stream.pc = "connecting"
    /\ stream' = [stream EXCEPT !.pc = "streaming", !.status = status]
    /\ UNCHANGED <<globalConfig, defaults, shared, snapshot, clients, calls>>

\* the response stream emits 'data'
StreamData(chunk) ==
    /\ stream.pc = "streaming"
    /\ Len(stream.received) < MaxChunks
    /\ stream' = onData(stream, chunk)
    /\ UNCHANGED <<globalConfig, defaults, shared, snapshot, clients, calls>>

\* the response stream emits 'end'
StreamEnd ==
    /\ stream.pc = "streaming"
    /\ stream' = onEnd(stream)
    /\ UNCHANGED <<globalConfig, defaults, shared, snapshot, clients, calls>>

\* the connection is closed before the body is complete: the response
\* stream emits 'error'
StreamAborted ==
    /\ stream.pc = "streaming"
    /\ stream' = onResponseError(stream, AbortedError)
    /\ UNCHANGED <<globalConfig, defaults, shared, snapshot, clients, calls>>

\* the socket has been idle for requestTimeout ms: the request emits 'timeout'
StreamTimeout ==
    /\ stream.pc \in {"connecting", "streaming"}
    /\ stream' = onTimeout(stream)
    /\ UNCHANGED <<globalConfig, defaults, shared, snapshot, clients, calls>>

\* the request emits 'error': a socket error while the exchange is in
\* progress, or the 'socket hang up' of the request that onTimeout destroyed
StreamError(code) ==
    /\ \/ stream.pc \in {"connecting", "streaming"}
       \/ stream.pc = "rejected" /\ stream.cause = "timeout" /\ ~stream.closed
    /\ stream' = onError(stream, code)
    /\ UNCHANGED <<globalConfig, defaults, shared, snapshot, clients, calls>>

NextStream ==
    \/ \E config \in GlobalPatches : SetGlobalConfig(config)
    \/ ResetGlobalConfig
    \/ \E options \in StreamOptions, validUrl \in BOOLEAN : StartStream(options, validUrl)
    \/ \E status \in Statuses : StreamResponse(status)
    \/ \E chunk \in Chunks : StreamData(chunk)
    \/ StreamEnd
    \/ StreamAborted
    \/ StreamTimeout
    \/ \E code \in SocketCodes : StreamError(code)

SpecStream == Init /\ [][NextStream]_vars

\* The caller of frame 1 does one thing at a time: it changes the process-wide
\* configuration or creates a client only between two of its requests.
SequentialSetGlobalConfig(config) == ~InFlight(calls[1]) /\ SetGlobalConfig(config)
SequentialResetGlobalConfig == ~InFlight(calls[1]) /\ ResetGlobalConfig
SequentialCreateClient(config) == ~InFlight(calls[1]) /\ CreateClient(config)

Next ==
    \/ \E config \in GlobalPatches : SequentialSetGlobalConfig(config)
    \/ SequentialResetGlobalConfig
    \/ \E config \in ClientConfigs : SequentialCreateClient(config)
    \/ \E options \in RequestOptions, j \in JitterDraws : StartRequest(1, 0, options, j)
    \/ \E options \in ClientRequestOptions, j \in JitterDraws :
          StartRequest(1, 1, options, j)
    \/ \E raw \in RawOutcomes, d \in AttemptDurations, j \in JitterDraws :
          AttemptCompletes(1, raw, d, j)
    \/ \E j \in JitterDraws : SleepCompletes(1, j)

Spec == Init /\ [][Next]_vars

(***************************************************************************)
(* Two callers issuing requests on the default client concurrently,        *)
(* against a server that answers 200, 404 or 500, while the process-wide   *)
(* configuration is being changed.                                         *)
(***************************************************************************)
ConcurrentOptions ==
    { [NoOptions EXCEPT !.backoff.jitter = Some(FALSE)],
      [NoOptions EXCEPT !.maxRetries = Some(1), !.backoff.jitter = Some(FALSE)] }
ConcurrentOutcomes == {RawResponse(200), RawResponse(404), RawResponse(500)}

NextConcurrent ==
    \/ \E config \in GlobalPatches : SetGlobalConfig(config)
    \/ ResetGlobalConfig
    \/ \E c \in CallIds, options \in ConcurrentOptions, j \in JitterDraws :
          StartRequest(c, 0, options, j)
    \/ \E c \in CallIds, raw \in ConcurrentOutcomes, d \in AttemptDurations,
          j \in JitterDraws :
          AttemptCompletes(c, raw, d, j)
    \/ \E c \in CallIds, j \in JitterDraws : SleepCompletes(c, j)

SpecConcurrent == Init /\ [][NextConcurrent]_vars

(***************************************************************************)
(* One caller on the default client, the process-wide configuration left   *)
(* alone, with the events a destroyed request emits after its attempt is   *)
(* over.  SpecRetryFair adds the scheduling the runtime provides: a        *)
(* pending attempt ends (with a response, a socket error or the socket     *)
(* timeout) and a pending sleep timer fires.                               *)
(***************************************************************************)
RetryOptions ==
    { NoOptions,
      [NoOptions EXCEPT !.maxRetries = Some(1), !.timeout = Some(500)],
      [NoOptions EXCEPT !.maxRetries = Some(-2)],
      [NoOptions EXCEPT !.maxRetries = Some(2), !.globalTimeout = Some(0)],
      [NoOptions EXCEPT !.maxRetries = Some(2), !.logging.logRetries = Some(FALSE)],
      [NoOptions EXCEPT !.maxRetries = Some(6), !.globalTimeout = Some(3000),
                        !.backoff = Backoff(100, Frac(2, 1), 1000, FALSE)] }

NextRetry ==
    \/ \E options \in RetryOptions, j \in JitterDraws : StartRequest(1, 0, options, j)
    \/ \E raw \in RawOutcomes, d \in AttemptDurations, j \in JitterDraws :
          AttemptCompletes(1, raw, d, j)
    \/ \E j \in JitterDraws : SleepCompletes(1, j)
    \/ \E raw \in RawOutcomes, j \in JitterDraws : LateEvent(1, raw, j)

SpecRetry == Init /\ [][NextRetry]_vars

SpecRetryFair ==
    /\ SpecRetry
    /\ WF_vars(\E raw \in RawOutcomes, d \in AttemptDurations, j \in JitterDraws :
                  AttemptCompletes(1, raw, d, j))
    /\ WF_vars(\E j \in JitterDraws : SleepCompletes(1, j))

(***************************************************************************)
(* A caller that reads the process-wide configuration with                 *)
(* getGlobalConfig() and assigns to the object it obtained, between calls  *)
(* of setGlobalConfig, resetGlobalConfig and createClient and requests     *)
(* through the created client.                                             *)
(***************************************************************************)
SnapshotRetries == {7}
SnapshotOptions == { [NoOptions EXCEPT !.maxRetries = Some(0)] }

NextSnapshot ==
    \/ \E config \in GlobalPatches : SetGlobalConfig(config)
    \/ ResetGlobalConfig
    \/ GetGlobalConfig
    \/ \E n \in SnapshotRetries : WriteSnapshotKey(n)
    \/ \E jitter \in BOOLEAN : WriteSnapshotField(jitter)
    \/ \E config \in ClientConfigs : CreateClient(config)
    \/ \E options \in SnapshotOptions, j \in JitterDraws : StartRequest(1, 1, options, j)
    \/ \E raw \in ConcurrentOutcomes, d \in AttemptDurations, j \in JitterDraws :
          AttemptCompletes(1, raw, d, j)

SpecSnapshot == Init /\ [][NextSnapshot]_vars

(***************************************************************************)
(* Properties of the retry loop                                            *)
(***************************************************************************)
Budget(f) == 1 + f.config.maxRetries
Started(f) == f.pc # "idle"
Done(f) == f.pc = "done"

\* C1 (as stated): a call never invokes executeRequest more than
\* 1 + maxRetries times.
C1_AttemptsAtMostBudget ==
    \A c \in CallIds : Started(calls[c]) => calls[c].execCount <= Budget(calls[c])

\* C1 (amended): a call never invokes executeRequest more than
\* max(0, 1 + maxRetries) times.
C1_AttemptsAtMostNonNegativeBudget ==
    \A c \in CallIds :
        Started(calls[c]) => calls[c].execCount <= Max(0, Budget(calls[c]))

\* a call that used its whole budget of three or more attempts
C1_Witness ==
    \E c \in CallIds :
        /\ Done(calls[c]) /\ calls[c].config.maxRetries >= 2
        /\ calls[c].execCount = Budget(calls[c])

\* C2: when every attempt failed with a retryable failure, maxRetries = n >= 0
\* and the global timeout never fired, the call ends with RetryExhaustedError
\* whose attempts field is n + 1.
C2_ExhaustedAfterBudget ==
    \A c \in CallIds :
        ( /\ Done(calls[c]) /\ calls[c].listedOnly
          /\ calls[c].config.maxRetries >= 0 /\ calls[c].timeoutHits = 0 )
        => /\ calls[c].thrown.kind = "RetryExhaustedError"
           /\ calls[c].thrown.attempts = calls[c].config.maxRetries + 1
           /\ calls[c].execCount = calls[c].config.maxRetries + 1

\* three attempts answered 500 with maxRetries = 2
C2_Witness ==
    \E c \in CallIds :
        /\ Done(calls[c]) /\ calls[c].listedOnly /\ calls[c].timeoutHits = 0
        /\ calls[c].config.maxRetries = 2
        /\ calls[c].lastError = HttpError(500)
        /\ calls[c].thrown = RetryExhaustedError(3)

FatalHttp(error) ==
    error.kind = "HttpError" /\ error.status >= 400 /\ error.status # 500

\* C3: an attempt that fails with an HttpError of a status >= 400 other than
\* 500 ends the call with that very error, whichever attempt it is: the call
\* is over (no further attempt, no sleep) and the error is not wrapped.
C3_FatalThrownUnwrapped ==
    \A c \in CallIds :
        FatalHttp(calls[c].lastError)
        => /\ Done(calls[c])
           /\ calls[c].thrown = calls[c].lastError
           /\ calls[c].sleepCount = calls[c].attemptNumber - 1
           /\ calls[c].execCount = calls[c].attemptNumber

\* a 404 on the last allowed attempt, after two retries
C3_Witness ==
    \E c \in CallIds :
        /\ calls[c].lastError = HttpError(404)
        /\ calls[c].attemptNumber = Budget(calls[c])
        /\ calls[c].attemptNumber = 3
        /\ calls[c].thrown = HttpError(404)

\* C4: once the global timeout check at loop entry has fired, the call is over
\* and has thrown the TimeoutError itself: the check fires at most once and no
\* sleep follows it.
C4_GlobalTimeoutThrownDirectly ==
    \A c \in CallIds :
        calls[c].timeoutHits > 0
        => /\ Done(calls[c])
           /\ calls[c].thrown = TimeoutError("Global timeout exceeded")
           /\ calls[c].timeoutHits = 1

\* the claim's classification of a failure
C5_ClaimedRetryable(error) ==
    \/ error.kind = "TimeoutError"
    \/ error.kind = "NetworkError" /\ error.code \in retryableCodes
    \/ error.kind = "HttpError" /\ error.status = 500

\* the classification the code implements
C5_AmendedRetryable(error) ==
    \/ error.kind = "TimeoutError"
    \/ error.kind = "NetworkError"
    \/ error.kind = "HttpError" /\ error.status = 500
    \/ /\ error.kind \notin {"HttpError", "TimeoutError", "NetworkError"}
       /\ error.code \in retryableCodes

\* the retry decision taken on the last failure of frame f was "fatal": the
\* failure itself was thrown
DecidedFatal(f) == Done(f) /\ f.thrown = f.lastError

\* C5 (as stated): a failure is treated as retryable exactly when it is a
\* TimeoutError, a NetworkError with one of the seven codes, or an HttpError of
\* status 500; every other failure is thrown at once.
C5_RetryableAsClaimed ==
    \A c \in CallIds :
        calls[c].lastError # NoError
        => (DecidedFatal(calls[c]) <=> ~C5_ClaimedRetryable(calls[c].lastError))

\* C5 (amended): a failure is treated as retryable exactly when it is a
\* TimeoutError, a NetworkError of any code, an HttpError of status 500, or an
\* error of another class that carries one of the seven codes.
C5_RetryableAsImplemented ==
    \A c \in CallIds :
        calls[c].lastError # NoError
        => (DecidedFatal(calls[c]) <=> ~C5_AmendedRetryable(calls[c].lastError))

\* a NetworkError without a code (UNKNOWN) is being retried
C5_Witness ==
    \E c \in CallIds :
        /\ calls[c].pc = "sleeping"
        /\ calls[c].lastError = NetworkError("UNKNOWN")

(***************************************************************************)
(* Properties of the configuration cascade                                 *)
(***************************************************************************)
BackoffKeys == DOMAIN NoBackoff
LoggingKeys == DOMAIN NoLogging

\* C6: a value of the process-wide configuration that setGlobalConfig changed
\* after the client was constructed is the value every later call on that
\* client resolves, unless the call overrides it.
C6_GlobalWinsOverConstruction ==
    \A c \in CallIds :
        LET f    == calls[c]
            seen == clients[f.client].seen
        IN  Started(f) =>
            /\ (f.options.maxRetries = Absent /\ f.startGlobal.maxRetries # seen.maxRetries)
                 => f.config.maxRetries = f.startGlobal.maxRetries
            /\ (f.options.timeout = Absent
                  /\ f.startGlobal.requestTimeout # seen.requestTimeout)
                 => f.config.requestTimeout = f.startGlobal.requestTimeout
            /\ (f.options.globalTimeout = Absent
                  /\ f.startGlobal.globalTimeout # seen.globalTimeout)
                 => f.config.globalTimeout = f.startGlobal.globalTimeout
            /\ \A k \in BackoffKeys :
                 (f.options.backoff[k] = Absent /\ f.startGlobal.backoff[k] # seen.backoff[k])
                 => f.config.backoff[k] = f.startGlobal.backoff[k]
            /\ \A k \in LoggingKeys :
                 (f.options.logging[k] = Absent /\ f.startGlobal.logging[k] # seen.logging[k])
                 => f.config.logging[k] = f.startGlobal.logging[k]

\* what frame f may attempt when its retry budget is n
RespectsRetries(f, n) ==
    /\ f.config.maxRetries = n
    /\ f.execCount <= Max(0, 1 + n)
    /\ (Done(f) /\ f.listedOnly /\ f.timeoutHits = 0 /\ n >= 0)
         => f.thrown = RetryExhaustedError(1 + n)

\* C7: a call that overrides maxRetries runs on its own value, a concurrent
\* call without the override runs on the process-wide value that was current
\* when it started, and neither budget depends on the other call.
C7_RetriesResolvedPerCall ==
    \A c \in CallIds :
        Started(calls[c]) =>
            RespectsRetries(calls[c],
                            IF calls[c].options.maxRetries # Absent
                              THEN Value(calls[c].options.maxRetries)
                              ELSE calls[c].startGlobal.maxRetries)

\* both calls are in progress: the one with maxRetries: 1 is in its last
\* attempt, the other one runs on setGlobalConfig({maxRetries: 2}) and is in
\* its third attempt
C7_Witness ==
    \E c, o \in CallIds :
        /\ calls[c].pc = "attempting" /\ calls[o].pc = "attempting"
        /\ calls[c].options.maxRetries = Some(1) /\ calls[c].attemptNumber = 1
        /\ calls[o].options.maxRetries = Absent /\ calls[o].startGlobal.maxRetries = 2
        /\ calls[o].attemptNumber = 2

\* C8: a value given to createClient is the value a call through that client
\* resolves, unless the call overrides it: request > client > global.
C8_ClientWinsOverGlobal ==
    \A c \in CallIds :
        LET f     == calls[c]
            given == clients[f.client].given
        IN  Started(f) =>
            /\ (f.options.maxRetries = Absent /\ given.maxRetries # Absent)
                 => RespectsRetries(f, Value(given.maxRetries))
            /\ (f.options.timeout = Absent /\ given.requestTimeout # Absent)
                 => f.config.requestTimeout = Value(given.requestTimeout)
            /\ (f.options.globalTimeout = Absent /\ given.globalTimeout # Absent)
                 => f.config.globalTimeout = Value(given.globalTimeout)

\* the fields of sub-object now that part does not supply are those of base
KeepsOtherFields(now, base, part) ==
    \A k \in DOMAIN part :
        IF part[k] = Absent THEN now[k] = base[k] ELSE now[k] = Value(part[k])

\* the configuration a call would have resolved without any backoff or
\* logging override
WithoutSubObjects(f) ==
    mergeRequestConfig([f.options EXCEPT !.backoff = NoBackoff, !.logging = NoLogging],
                       clients[f.client].config, f.startGlobal)

C9_RequestLevel ==
    \A c \in CallIds :
        Started(calls[c]) =>
            /\ KeepsOtherFields(calls[c].config.backoff,
                                WithoutSubObjects(calls[c]).backoff, calls[c].options.backoff)
            /\ KeepsOtherFields(calls[c].config.logging,
                                WithoutSubObjects(calls[c]).logging, calls[c].options.logging)

C9_ClientLevel ==
    \A id \in ClientIds :
        clients[id].created =>
            /\ KeepsOtherFields(clients[id].config.backoff,
                                clients[id].seen.backoff, clients[id].given.backoff)
            /\ KeepsOtherFields(clients[id].config.logging,
                                clients[id].seen.logging, clients[id].given.logging)

C9_GlobalLevel ==
    globalConfig' # globalConfig =>
        \/ globalConfig' = DEFAULT_CONFIG
        \/ \E p \in GlobalPatches :
              /\ KeepsOtherFields(globalConfig'.backoff, globalConfig.backoff, p.backoff)
              /\ KeepsOtherFields(globalConfig'.logging, globalConfig.logging, p.logging)

\* C9: the backoff and logging sub-objects are merged field by field by
\* mergeRequestConfig, by the HttpClient constructor and by setGlobalConfig: a
\* field the override does not supply keeps the value it had without the
\* override, a field it supplies takes the supplied value.
C9_SubObjectsMergeFieldByField ==
    /\ [](C9_RequestLevel /\ C9_ClientLevel)
    /\ [][C9_GlobalLevel]_vars

\* a call that overrides backoff.jitter alone on the client created with
\* backoff.initialDelay alone, after setGlobalConfig changed jitter alone
C9_Witness ==
    \E c \in CallIds :
        /\ Started(calls[c]) /\ calls[c].client = 1
        /\ calls[c].options.backoff = [NoBackoff EXCEPT !.jitter = Some(FALSE)]
        /\ clients[1].given.backoff = [NoBackoff EXCEPT !.initialDelay = Some(100)]
        /\ clients[1].seen.backoff = [DEFAULT_CONFIG.backoff EXCEPT !.jitter = FALSE]
        /\ calls[c].config.backoff =
             [initialDelay |-> 100, multiplier |-> Frac(2, 1), maxDelay |-> 30000,
              jitter |-> FALSE]

(***************************************************************************)
(* Properties of the backoff delays                                        *)
(***************************************************************************)
\* floor(min(initialDelay * multiplier^(k-1), maxDelay))
C10_Expected(k, b) ==
    Min((b.initialDelay * Pow(b.multiplier.n, k - 1)) \div Pow(b.multiplier.d, k - 1),
        b.maxDelay)

C10_Series == <<100, 200, 400, 800, 1000, 1000>>

\* C10: with jitter disabled the k-th sleep of a call lasts
\* floor(min(initialDelay * multiplier^(k-1), maxDelay)) ms; with
\* initialDelay 100, multiplier 2 and maxDelay 1000 the sleeps last
\* 100, 200, 400, 800, 1000, 1000 ms.
C10_DelaysWithoutJitter ==
    \A c \in CallIds :
        LET f == calls[c]
        IN  (f.pc = "sleeping" /\ ~f.config.backoff.jitter) =>
            /\ f.delay = C10_Expected(f.sleepCount, f.config.backoff)
            /\ ( /\ f.config.backoff.initialDelay = 100
                 /\ f.config.backoff.multiplier = Frac(2, 1)
                 /\ f.config.backoff.maxDelay = 1000
                 /\ f.sleepCount <= Len(C10_Series) )
               => f.delay = C10_Series[f.sleepCount]

\* the sixth sleep of a call whose six attempts all failed: 1000 ms, capped
C10_Witness ==
    \E c \in CallIds :
        /\ calls[c].pc = "sleeping" /\ ~calls[c].config.backoff.jitter
        /\ calls[c].config.backoff.initialDelay = 100
        /\ calls[c].config.backoff.multiplier = Frac(2, 1)
        /\ calls[c].sleepCount = 6 /\ calls[c].execCount = 6
        /\ calls[c].delay = 1000

\* C11: with jitter enabled the delay of a sleep is an integer d with
\* floor(0.5 * c) <= d <= c, where c = min(initialDelay * multiplier^k, maxDelay)
\* and k is the 0-based retry number passed to calculateBackoffDelay; d never
\* exceeds maxDelay.
C11_JitteredDelayWithinBounds ==
    \A c \in CallIds :
        LET f      == calls[c]
            b      == f.config.backoff
            k      == f.attemptNumber - 1
            num    == b.initialDelay * Pow(b.multiplier.n, k)
            den    == Pow(b.multiplier.d, k)
            capped == num >= b.maxDelay * den
        IN  (f.pc = "sleeping" /\ b.jitter) =>
            /\ f.delay \in Int
            /\ f.delay <= b.maxDelay
            /\ IF capped
                 THEN b.maxDelay \div 2 <= f.delay
                 ELSE num \div (2 * den) <= f.delay /\ f.delay * den <= num

\* the second sleep of a call with backoff 100 / 1.5 / 120 and jitter: 150 is
\* capped to 120 and scaled by 0.75
C11_Witness ==
    \E c \in CallIds :
        /\ calls[c].pc = "sleeping" /\ calls[c].config.backoff.jitter
        /\ calls[c].config.backoff.maxDelay = 120
        /\ calls[c].attemptNumber = 2
        /\ calls[c].delay = 90

(***************************************************************************)
(* Properties of the outcome of a call                                     *)
(***************************************************************************)
\* C12 (as stated): a call with maxRetries = 0 makes exactly one attempt and
\* never sleeps, whatever the outcome of the attempt.
C12_SingleAttemptWithoutRetries ==
    \A c \in CallIds :
        (Started(calls[c]) /\ calls[c].config.maxRetries = 0)
        => /\ calls[c].execCount = 1
           /\ calls[c].sleepCount = 0
           /\ calls[c].lastRaw # NoRaw => Done(calls[c])

\* C12 (amended): a call with maxRetries = 0 whose global timeout has not
\* elapsed when the loop is entered (globalTimeout > 0) makes exactly one
\* attempt and never sleeps, whatever the outcome of the attempt.
C12_SingleAttemptBeforeGlobalTimeout ==
    \A c \in CallIds :
        ( /\ Started(calls[c]) /\ calls[c].config.maxRetries = 0
          /\ calls[c].config.globalTimeout > 0 )
        => /\ calls[c].execCount = 1
           /\ calls[c].sleepCount = 0
           /\ calls[c].lastRaw # NoRaw => Done(calls[c])

\* the only attempt of a call with maxRetries = 0 was answered 500
C12_Witness ==
    \E c \in CallIds :
        /\ Done(calls[c]) /\ calls[c].config.maxRetries = 0
        /\ calls[c].lastRaw = RawResponse(500)
        /\ calls[c].thrown = RetryExhaustedError(1)
        /\ calls[c].execCount = 1 /\ calls[c].sleepCount = 0

\* C13: after k retryable failures, with maxRetries >= k and the global
\* timeout not reached, the call is still running (it sleeps, then makes
\* attempt k + 1); when attempt k + 1 succeeds the call returns that Response
\* after exactly k + 1 attempts and k sleeps.
C13_SuccessAfterRetries ==
    \A c \in CallIds :
        LET f == calls[c]
        IN  /\ ( /\ Started(f) /\ f.listedOnly /\ f.timeoutHits = 0
                 /\ f.attemptNumber <= f.config.maxRetries )
               => /\ InFlight(f) /\ f.thrown = NoError
                  /\ f.execCount = IF f.pc = "sleeping" THEN f.attemptNumber
                                   ELSE f.attemptNumber + 1
            /\ (Done(f) /\ Resolves(f.lastRaw))
               => /\ f.returned = f.lastRaw.status /\ f.thrown = NoError
                  /\ f.execCount = f.attemptNumber + 1
                  /\ f.sleepCount = f.attemptNumber

\* 500, 500, 200: the call has returned the 200 after three attempts
C13_Witness ==
    \E c \in CallIds :
        /\ Done(calls[c]) /\ calls[c].returned = 200
        /\ calls[c].lastError = HttpError(500)
        /\ calls[c].attemptNumber = 2 /\ calls[c].execCount = 3
        /\ calls[c].config.maxRetries >= 2

FourKinds == {"HttpError", "TimeoutError", "NetworkError", "RetryExhaustedError"}

\* C14: a call that is over has either returned a Response or thrown an
\* HttpError, a TimeoutError, a NetworkError or a RetryExhaustedError.
C14_OnlyFourErrorKinds ==
    \A c \in CallIds :
        Done(calls[c])
        => \/ calls[c].returned # 0 /\ calls[c].thrown = NoError
           \/ calls[c].returned = 0 /\ calls[c].thrown.kind \in FourKinds

\* C15: the lastError of a thrown RetryExhaustedError is the failure of the
\* last attempt made, and is a TimeoutError, a NetworkError or an HttpError.
C15_LastErrorIsLastAttemptFailure ==
    \A c \in CallIds :
        calls[c].thrown.kind = "RetryExhaustedError"
        => /\ calls[c].lastError.kind \in {"TimeoutError", "NetworkError", "HttpError"}
           /\ calls[c].lastRaw # NoRaw
           /\ calls[c].lastError = Rejection(calls[c].lastRaw)

\* C16: an attempt answered with a status in [200, 400) makes the call return
\* a Response of that status; an attempt answered with a status >= 400 never
\* returns a Response: it fails with an HttpError of that status.
C16_StatusClassification ==
    \A c \in CallIds :
        LET f  == calls[c]
            st == f.lastRaw.status
        IN  f.lastRaw.type = "response" =>
            /\ (200 <= st /\ st < 400)
                 => Done(f) /\ f.returned = st /\ f.thrown = NoError
            /\ st >= 400
                 => /\ f.returned = 0
                    /\ f.timeoutHits = 0 => f.lastError = HttpError(st)
                    /\ Done(f) => f.thrown # NoError

\* a 302 was returned as a Response
C16_Witness ==
    \E c \in CallIds :
        /\ Done(calls[c]) /\ calls[c].lastRaw = RawResponse(302)
        /\ calls[c].returned = 302

\* C19: the elapsed time of a call, attempts and sleeps included, never
\* exceeds its globalTimeout.
C19_ElapsedWithinGlobalTimeout ==
    \A c \in CallIds :
        Started(calls[c]) => calls[c].elapsed <= calls[c].config.globalTimeout

\* the configuration a call on frame c would resolve in the current state
ResolvedNow(c) ==
    mergeRequestConfig(calls[c].options, clients[calls[c].client].config,
                       getGlobalConfig(globalConfig))

\* C20 (as stated): every loop iteration of a call that starts an attempt runs
\* on the configuration resolved from the process-wide configuration current
\* at that iteration.
C20_ConfigReadEveryIteration ==
    [][\A c \in CallIds :
          calls'[c].execCount = calls[c].execCount + 1
          => calls'[c].config =
               mergeRequestConfig(calls'[c].options, clients[calls'[c].client].config,
                                  getGlobalConfig(globalConfig))]_vars

\* C20 (amended): the configuration of a call is resolved once, from the
\* process-wide configuration current when request() is entered; no step
\* taken while the call is in an attempt or a sleep changes it.
C20_ConfigReadOncePerCall ==
    [][\A c \in CallIds :
          IF InFlight(calls[c])
            THEN calls'[c].config = calls[c].config
            ELSE calls'[c] # calls[c]
                 => calls'[c].config =
                      mergeRequestConfig(calls'[c].options,
                                         clients[calls'[c].client].config,
                                         getGlobalConfig(globalConfig))]_vars

\* a call started with maxRetries 3 is in its fourth attempt although the
\* process-wide maxRetries is now 2
C20_Witness ==
    \E c \in CallIds :
        /\ calls[c].pc = "attempting" /\ calls[c].execCount = 4
        /\ calls[c].options.maxRetries = Absent
        /\ calls[c].config.maxRetries = 3
        /\ globalConfig.maxRetries = 2

(***************************************************************************)
(* Properties of requestStream                                             *)
(***************************************************************************)
\* C17: requestStream sends one request whatever maxRetries is, passes every
\* chunk to the callback once and in arrival order, and resolves only after
\* the end-of-stream signal, when every chunk has been passed on; nothing is
\* passed to the callback after that.
C17_StreamStep ==
    /\ stream'.attempts <= 1
    /\ stream.pc = "resolved" /\ stream'.pc = "resolved"
         => stream'.delivered = stream.delivered

C17_StreamState ==
    /\ stream.pc # "idle" => stream.attempts = 1
    /\ stream.delivered = stream.received
    /\ stream.pc = "resolved" => stream.ended /\ stream.thrown = NoError

C17_SingleAttemptChunksInOrder ==
    []C17_StreamState /\ [][C17_StreamStep]_vars

\* three chunks a, b, a were passed on in that order, then the call resolved,
\* with maxRetries 5
C17_Witness ==
    /\ stream.pc = "resolved" /\ stream.ended
    /\ stream.config.maxRetries = 5
    /\ stream.delivered = <<"a", "b", "a">>

\* C18: a transport error after at least one chunk was delivered rejects the
\* call with a NetworkError; no second request is sent.
C18_MidStreamErrorIsNetworkError ==
    ( /\ stream.pc = "rejected"
      /\ stream.cause \in {"request error", "response error"}
      /\ Len(stream.delivered) >= 1 )
    => stream.thrown.kind = "NetworkError" /\ stream.attempts = 1

(***************************************************************************)
(* Properties of the attempts of one call                                  *)
(***************************************************************************)
C21_State ==
    \A c \in CallIds :
        calls[c].open = IF calls[c].pc = "attempting" THEN 1 ELSE 0

C21_Step ==
    \A c \in CallIds :
        (calls[c].execCount >= 1 /\ calls'[c].execCount = calls[c].execCount + 1)
        => /\ calls[c].pc = "sleeping" /\ calls[c].open = 0
           /\ calls[c].lastRaw # NoRaw /\ ~Resolves(calls[c].lastRaw)
           /\ calls[c].lastError # NoError
           /\ calls'[c].elapsed = Min(calls[c].elapsed + calls[c].delay, MaxElapsed)

C22_State ==
    \A c \in CallIds :
        LET f == calls[c]
        IN  Started(f) =>
            /\ f.warns = IF f.config.logging.logRetries THEN f.sleepCount ELSE 0
            /\ f.pc = "sleeping" =>
                 f.lastWarn = IF f.config.logging.logRetries
                                THEN [attempt |-> f.attemptNumber, delay |-> f.delay,
                                      error |-> f.lastError.msg]
                                ELSE NoWarn
            /\ (Done(f) /\ f.thrown # NoError) => f.lastWarn = NoWarn

C22_Step ==
    \A c \in CallIds :
        (InFlight(calls[c]) /\ calls'[c].thrown # NoError)
        => /\ calls'[c].warns = calls[c].warns
           /\ calls'[c].debugs = calls[c].debugs

C23_EveryCallTerminates ==
    \A c \in CallIds : InFlight(calls[c]) ~> Done(calls[c])

\* a call with maxRetries 6 has ended after six attempts and six sleeps
C23_Witness ==
    \E c \in CallIds :
        /\ Done(calls[c]) /\ calls[c].config.maxRetries = 6
        /\ calls[c].execCount = 6 /\ calls[c].sleepCount = 6
        /\ calls[c].thrown = RetryExhaustedError(7)

(***************************************************************************)
(* Properties of the global timeout check                                  *)
(***************************************************************************)
\* C24: no attempt is started at a loop entry where the elapsed time has
\* reached globalTimeout: a call that awaits an attempt entered the loop with
\* elapsed < globalTimeout, and a call whose globalTimeout is 0 never starts
\* an attempt.
C24_NoAttemptAfterGlobalTimeout ==
    \A c \in CallIds :
        /\ calls[c].pc = "attempting" => calls[c].elapsed < calls[c].config.globalTimeout
        /\ (Started(calls[c]) /\ calls[c].config.globalTimeout <= 0)
             => calls[c].execCount = 0

\* a call with globalTimeout 3000 whose first attempt timed out after 30000 ms
\* entered the loop again and started no second attempt
C24_Witness ==
    \E c \in CallIds :
        /\ calls[c].config.globalTimeout = 3000 /\ calls[c].elapsed >= 3000
        /\ calls[c].timeoutHits = 1 /\ calls[c].execCount = 1
        /\ calls[c].attemptNumber = 2

\* C25: the attempts field of a thrown RetryExhaustedError is the number of
\* calls of executeRequest the call made.
C25_AttemptsFieldCountsAttempts ==
    \A c \in CallIds :
        calls[c].thrown.kind = "RetryExhaustedError"
        => calls[c].thrown.attempts = calls[c].execCount

(***************************************************************************)
(* Properties of the backoff sleeps                                        *)
(***************************************************************************)
\* the loop iterations a call has entered: each one either calls
\* executeRequest or throws the global timeout error
Iterations(f) == f.execCount + f.timeoutHits

\* C27 (as stated): the sleeps of a call lie between two consecutive loop
\* iterations, and a call that is over has slept exactly one time less than
\* it entered the loop.
C27_OneSleepLessThanIterations ==
    \A c \in CallIds :
        LET f == calls[c]
        IN  /\ f.pc = "attempting" => f.sleepCount = Iterations(f) - 1
            /\ f.pc = "sleeping" => f.sleepCount = Iterations(f)
            /\ Done(f) => f.sleepCount = Iterations(f) - 1

\* C27 (amended): the sleeps of a call lie between two consecutive loop
\* iterations: none precedes the first iteration, none follows the last; a
\* call that is over and entered n >= 1 iterations has slept n - 1 times, one
\* that entered none has not slept.
C27_SleepsBetweenIterations ==
    \A c \in CallIds :
        LET f == calls[c]
        IN  /\ f.pc = "attempting" => f.sleepCount = Iterations(f) - 1
            /\ f.pc = "sleeping" => f.sleepCount = Iterations(f)
            /\ Done(f) => f.sleepCount = Max(Iterations(f) - 1, 0)

\* a call returned the 200 of its third attempt: three iterations, two sleeps
C27_Witness ==
    \E c \in CallIds :
        /\ Done(calls[c]) /\ calls[c].returned = 200
        /\ Iterations(calls[c]) = 3 /\ calls[c].sleepCount = 2

(***************************************************************************)
(* Properties of the outcome of one attempt                                *)
(***************************************************************************)
\* the attempts of frame f that have failed
FailedAttempts(f) ==
    f.execCount - (IF f.pc = "attempting" THEN 1 ELSE 0) - (IF f.returned # 0 THEN 1 ELSE 0)

C28_State ==
    \A c \in CallIds :
        LET f == calls[c]
        IN  /\ (f.lastRaw = RawTimeout /\ f.timeoutHits = 0)
               => f.lastError = TimeoutError("Request timeout")
            /\ Started(f) => f.attemptNumber = FailedAttempts(f) + f.timeoutHits

C28_Step ==
    \A c \in CallIds :
        calls'[c].lateSeen = calls[c].lateSeen + 1
        => calls'[c] = [calls[c] EXCEPT !.lateSeen = calls[c].lateSeen + 1,
                                       !.destroyed = 0]

\* C28: an attempt has exactly one outcome.  The attempt whose request the
\* per-attempt timeout destroyed fails with the TimeoutError; an error or a
\* response the destroyed request emits afterwards changes nothing of the
\* call (neither the failure it recorded, nor its attempt counter, nor what it
\* is waiting for), and the catch block runs once per failed attempt.
C28_OneOutcomePerAttempt ==
    []C28_State /\ [][C28_Step]_vars

\* the late event of the first request, destroyed by the timeout, was handled
\* while the call was awaiting its second attempt
C28_Witness ==
    \E c \in CallIds :
        /\ calls[c].pc = "attempting" /\ calls[c].execCount = 2
        /\ calls[c].lateSeen = 1 /\ calls[c].destroyed = 0
        /\ calls[c].lastError = TimeoutError("Request timeout")
        /\ calls[c].attemptNumber = 1

(***************************************************************************)
(* Independence of concurrent calls                                        *)
(***************************************************************************)
\* the attempts of frame f that have completed
Completed(f) == f.execCount - (IF f.pc = "attempting" THEN 1 ELSE 0)

\* The frame of a call that runs alone from frame f, which awaits an attempt:
\* `left` attempts complete, the last one with the raw outcome last and the
\* earlier ones with the one retryable outcome of ConcurrentOutcomes, a 500;
\* resumed tells whether the sleep after the last of them has completed.
RECURSIVE SoloRun(_, _, _, _)
SoloRun(f, left, last, resumed) ==
    IF left = 0 \/ f.pc # "attempting"
      THEN f
      ELSE LET raw == IF left = 1 THEN last ELSE RawResponse(500)
               g   == AfterAttempt(Advance(f, AttemptMs), raw, 0)
           IN  IF g.pc = "sleeping" /\ (left > 1 \/ resumed)
                 THEN SoloRun(LoopEntry(Advance(g, g.delay), 0), left - 1, last, resumed)
                 ELSE g

\* the frame the call of frame f would be in had it run alone with the same
\* options, on the same client, from the same process-wide configuration and
\* against the same attempt outcomes
Solo(f) ==
    SoloRun(LoopEntry(NewCall(f.client, f.options, f.startGlobal), 0),
            Completed(f), f.lastRaw, f.pc = "attempting")

C26_State ==
    \A c \in CallIds : Started(calls[c]) => calls[c] = Solo(calls[c])

C26_Step ==
    \A c, o \in CallIds : (c # o /\ calls'[c] # calls[c]) => calls'[o] = calls[o]

\* C26: concurrent calls are independent.  Whatever the other call does, a
\* call is in the state (attempt counter, last error, resolved configuration,
\* attempts made, sleeps, elapsed time, outcome) it would be in had it run
\* alone against the same attempt outcomes, and a step of one call leaves the
\* other call's frame unchanged.
C26_ConcurrentCallsIndependent ==
    []C26_State /\ [][C26_Step]_vars

\* one call is in its third attempt while the other one, started with other
\* options, sleeps after its first failure
C26_Witness ==
    \E c, o \in CallIds :
        /\ calls[c].pc = "attempting" /\ calls[c].execCount = 3
        /\ calls[o].pc = "sleeping" /\ calls[o].execCount = 1
        /\ calls[c].options # calls[o].options

(***************************************************************************)
(* Properties of setGlobalConfig and resetGlobalConfig                     *)
(***************************************************************************)
TopLevelKeys == {"maxRetries", "requestTimeout", "globalTimeout"}

\* now is base with the keys and the backoff and logging fields that patch p
\* gives set to the given values, and every other one as in base
OnlyGivenKeysChanged(now, base, p) ==
    /\ \A k \in TopLevelKeys :
         now[k] = IF p[k] = Absent THEN base[k] ELSE Value(p[k])
    /\ \A k \in BackoffKeys :
         now.backoff[k] = IF p.backoff[k] = Absent THEN base.backoff[k]
                          ELSE Value(p.backoff[k])
    /\ \A k \in LoggingKeys :
         now.logging[k] = IF p.logging[k] = Absent THEN base.logging[k]
                          ELSE Value(p.logging[k])

\* C29: setGlobalConfig(p) changes only the keys p gives: every top-level key
\* and every backoff or logging field absent from p reads the same through
\* getGlobalConfig() after the call as before it, whatever calls preceded.
C29_SetChangesOnlyGivenKeys ==
    [][(globalConfig' # globalConfig /\ ~shared')
       => \E p \in GlobalPatches :
             OnlyGivenKeysChanged(getGlobalConfig(globalConfig'),
                                  getGlobalConfig(globalConfig), p)]_vars

\* setGlobalConfig({backoff: {jitter: false}}) was called on the defaults:
\* jitter alone has changed
C29_Witness ==
    /\ ~shared
    /\ getGlobalConfig(globalConfig) = [DEFAULT_CONFIG EXCEPT !.backoff.jitter = FALSE]

\* the defaults the documentation gives
C30_Documented ==
    [ maxRetries |-> 3, requestTimeout |-> 30000, globalTimeout |-> 120000,
      backoff |-> [ initialDelay |-> 1000, multiplier |-> Frac(2, 1),
                    maxDelay |-> 30000, jitter |-> TRUE ],
      logging |-> [ level |-> "info", logRetries |-> TRUE ] ]

\* C30: whatever setGlobalConfig calls preceded, resetGlobalConfig() leaves the
\* process-wide configuration at the documented defaults, and no
\* setGlobalConfig call changes the content of DEFAULT_CONFIG.
C30_ResetRestoresDefaults ==
    /\ [](defaults = C30_Documented)
    /\ [][(shared' /\ ~shared) => getGlobalConfig(globalConfig') = C30_Documented]_vars

\* the process-wide configuration is back at the defaults while a call that
\* started under setGlobalConfig({maxRetries: 2, ...}) is still recorded
C30_Witness ==
    /\ shared /\ getGlobalConfig(globalConfig) = C30_Documented
    /\ \E c \in CallIds :
          Started(calls[c]) /\ calls[c].startGlobal.maxRetries = 2

(***************************************************************************)
(* Properties of getGlobalConfig                                           *)
(***************************************************************************)
\* C31: the object getGlobalConfig() returns is a snapshot: an assignment to
\* one of its keys or to a field of its backoff or logging object changes
\* neither the process-wide configuration nor DEFAULT_CONFIG.
C31_SnapshotWritesStayLocal ==
    [][( /\ snapshot.ref # "none" /\ snapshot'.ref = snapshot.ref
         /\ snapshot'.value # snapshot.value )
       => ( /\ getGlobalConfig(globalConfig') = getGlobalConfig(globalConfig)
            /\ defaults' = defaults )]_vars

(***************************************************************************)
(* Properties of the response status in requestStream                      *)
(***************************************************************************)
C32_State ==
    /\ stream.thrown.kind # "HttpError"
    /\ (stream.pc = "resolved" /\ stream.status >= 400)
         => stream.thrown = NoError /\ stream.delivered = stream.received

C32_Step ==
    /\ (stream.pc = "streaming" /\ stream'.received # stream.received)
         => /\ stream'.pc = "streaming"
            /\ Len(stream'.delivered) = Len(stream.delivered) + 1
            /\ stream'.delivered = stream'.received
    /\ (stream.pc = "streaming" /\ stream'.ended)
         => stream'.pc = "resolved" /\ stream'.thrown = NoError

\* C32: requestStream does not look at the response status: whatever the
\* status, 404, 500 and 503 included, every body chunk is passed to the
\* callback, the end of the body resolves the call, and the call never
\* throws an HttpError.
C32_StreamIgnoresStatus ==
    []C32_State /\ [][C32_Step]_vars

\* a response of status 500 with the body a, b was passed to the callback
\* and the call resolved
C32_Witness ==
    /\ stream.pc = "resolved" /\ stream.status = 500
    /\ stream.delivered = <<"a", "b">> /\ stream.thrown = NoError

(***************************************************************************)
(* Properties of a call whose maxRetries is negative                       *)
(***************************************************************************)
\* C33: a negative maxRetries is taken as it is: the call makes no attempt
\* and sleeps for no delay, and it ends with a RetryExhaustedError whose
\* attempts field is 0.
C33_NegativeRetriesNoAttempt ==
    \A c \in CallIds :
        (Started(calls[c]) /\ calls[c].config.maxRetries < 0)
        => /\ calls[c].execCount = 0 /\ calls[c].sleepCount = 0
           /\ calls[c].timeoutHits = 0 /\ calls[c].open = 0
           /\ Done(calls[c])
           /\ calls[c].thrown = RetryExhaustedError(0)

\* a call made with maxRetries -2 has ended with RetryExhaustedError(0)
C33_Witness ==
    \E c \in CallIds :
        /\ Done(calls[c]) /\ calls[c].options.maxRetries = Some(-2)
        /\ calls[c].config.maxRetries = -2
        /\ calls[c].thrown = RetryExhaustedError(0) /\ calls[c].execCount = 0

====
